---------------------------- MODULE Spec2Model ----------------------------
(***************************************************************************)
(* A model of dictzip.go: the writer (Write), the header parser            *)
(* (NewReader), the random-access read (Reader.Get), the helper readfull   *)
(* and the base-64 decoder (decode).                                       *)
(*                                                                         *)
(* Bytes are the integers 0..255.  Header bytes are written out; the raw   *)
(* input is a run of L bytes and a stretch of it is named by its first     *)
(* position and its length, so a chunk, a compressed block and the bytes   *)
(* Get returns are known by which raw positions they hold.  The DEFLATE    *)
(* primitive (compress/flate) and the CRC-32 primitive (hash/crc32) are    *)
(* not part of dictzip.go: they are modelled at their interface.           *)
(***************************************************************************)
EXTENDS Integers, Sequences, FiniteSets, TLC

VARIABLES
    dval,   \* decode: the argument of the last call (a sequence of bytes)
    dres,   \* decode: what the last call returned
    src,    \* Write: the source r and the level of the last call
    wr,     \* Write: what the last call returned, with its locals at return
    file,   \* the stream a Reader is built on
    rd,     \* NewReader: what it returned (the Reader, an error, a panic)
    fpos,   \* the cursor of the stream dz.fp
    lock,   \* dz.lock: 0 when free, else the caller holding it
    call    \* per caller: the position in Get, its arguments, its result

vars == <<dval, dres, src, wr, file, rd, fpos, lock, call>>

None == [st |-> "none"]

(***************************************************************************)
(* Program constants.                                                      *)
(***************************************************************************)
blocksize == 58315

(***************************************************************************)
(* Base-64 decoder.                                                        *)
(***************************************************************************)

\* The alphabet, as byte values, digit 0 first.
list ==
    << 65, 66, 67, 68, 69, 70, 71, 72, 73, 74, 75, 76, 77, 78, 79, 80,
       81, 82, 83, 84, 85, 86, 87, 88, 89, 90, 97, 98, 99,100,101,102,
      103,104,105,106,107,108,109,110,111,112,113,114,115,116,117,118,
      119,120,121,122, 48, 49, 50, 51, 52, 53, 54, 55, 56, 57, 43, 47 >>

\* index[b] of the source is indexTable[b + 1].
indexTable ==
    << 99, 99, 99, 99, 99, 99, 99, 99, 99, 99, 99, 99, 99, 99, 99, 99,
       99, 99, 99, 99, 99, 99, 99, 99, 99, 99, 99, 99, 99, 99, 99, 99,
       99, 99, 99, 99, 99, 99, 99, 99, 99, 99, 99, 62, 99, 99, 99, 63,
       52, 53, 54, 55, 56, 57, 58, 59, 60, 61, 99, 99, 99, 99, 99, 99,
       99,  0,  1,  2,  3,  4,  5,  6,  7,  8,  9, 10, 11, 12, 13, 14,
       15, 16, 17, 18, 19, 20, 21, 22, 23, 24, 25, 99, 99, 99, 99, 99,
       99, 26, 27, 28, 29, 30, 31, 32, 33, 34, 35, 36, 37, 38, 39, 40,
       41, 42, 43, 44, 45, 46, 47, 48, 49, 50, 51, 99, 99, 99, 99, 99,
       99, 99, 99, 99, 99, 99, 99, 99, 99, 99, 99, 99, 99, 99, 99, 99,
       99, 99, 99, 99, 99, 99, 99, 99, 99, 99, 99, 99, 99, 99, 99, 99,
       99, 99, 99, 99, 99, 99, 99, 99, 99, 99, 99, 99, 99, 99, 99, 99,
       99, 99, 99, 99, 99, 99, 99, 99, 99, 99, 99, 99, 99, 99, 99, 99,
       99, 99, 99, 99, 99, 99, 99, 99, 99, 99, 99, 99, 99, 99, 99, 99,
       99, 99, 99, 99, 99, 99, 99, 99, 99, 99, 99, 99, 99, 99, 99, 99,
       99, 99, 99, 99, 99, 99, 99, 99, 99, 99, 99, 99, 99, 99, 99, 99,
       99, 99, 99, 99, 99, 99, 99, 99, 99, 99, 99, 99, 99, 99, 99, 99 >>

\* A uint64 is its 64 bits, bit 0 the least significant.
Bits64 == 0..63

U64Zero == [i \in Bits64 |-> 0]

\* The uint64 of a table entry (all entries are below 128).
U64Of(v) == [i \in Bits64 |-> IF i < 7 THEN (v \div (2^i)) % 2 ELSE 0]

\* x << k and x >> k on uint64: the bits shifted out are lost, and a count of
\* 64 or more leaves 0.
Shl(x, k) == [i \in Bits64 |-> IF i >= k THEN x[i - k] ELSE 0]

Shr(x, k) == [i \in Bits64 |-> IF i + k <= 63 THEN x[i + k] ELSE 0]

Or64(x, y) == [i \in Bits64 |-> IF x[i] = 1 \/ y[i] = 1 THEN 1 ELSE 0]

\* The overflow test of decode: shifting left and back loses nothing.
ShiftKeeps(tmp, offset) == Shr(Shl(tmp, offset), offset) = tmp

NextOffsetSlip(offset) == offset + 8

\* offset += 6
NextOffset(offset) == offset + 6

\* The loop of decode from index i (1-based) down to 1.
RECURSIVE decodeFrom(_, _, _, _)
decodeFrom(val, i, result, offset) ==
    IF i < 1 THEN [st |-> "ok", bits |-> result]
    ELSE LET tmp == indexTable[val[i] + 1] IN
         IF tmp = 99 THEN [st |-> "illegal", bits |-> U64Zero]
         ELSE IF ~ShiftKeeps(U64Of(tmp), offset)
              THEN [st |-> "overflow", bits |-> U64Zero]
         ELSE decodeFrom(val, i - 1, Or64(result, Shl(U64Of(tmp), offset)),
                         NextOffset(offset))

\* decode(val): bits is the returned int64 as its two's-complement bits.
decode(val) == decodeFrom(val, Len(val), U64Zero, 0)



(***************************************************************************)
(* readfull on the source of Write.                                        *)
(*                                                                         *)
(* The source r holds s.L bytes.  Its k-th Read returns at most            *)
(* s.caps[k] bytes (the pattern repeats), reports io.EOF with the last     *)
(* bytes when s.eofWith and on the call after them otherwise, and fails    *)
(* with an I/O error from position s.failAt on (-1: never).  The cursor of *)
(* the source is [pos, calls].                                             *)
(***************************************************************************)
Min(a, b) == IF a < b THEN a ELSE b

\* n, err := fp.Read(buf[p:]) with room for `room` bytes.
SourceRead(s, pos, calls, room) ==
    IF s.failAt >= 0 /\ pos >= s.failAt THEN [n |-> 0, err |-> "io"]
    ELSE LET cap == s.caps[(calls % Len(s.caps)) + 1]
             n   == Min(room, Min(cap, s.L - pos))
         IN  [n   |-> n,
              err |-> IF pos + n = s.L /\ (s.eofWith \/ n = 0) THEN "EOF" ELSE "nil"]

ReadfullKeepsOnSlip(err, p, ln) == FALSE

\* readfull goes on reading after a Read that returned no error.
ReadfullKeepsOn(err, p, ln) == err = "nil"

\* One turn of the loop of readfull, ln == len(buf).
ReadfullStep(s, ln, st) ==
    IF st.p >= ln THEN [st EXCEPT !.done = TRUE, !.p = ln, !.err = "nil"]
    ELSE LET r == SourceRead(s, st.pos, st.calls, ln - st.p)
             p == st.p + r.n
         IN  [p     |-> p,
              pos   |-> st.pos + r.n,
              calls |-> st.calls + 1,
              err   |-> IF r.err = "EOF" /\ p >= ln THEN "nil" ELSE r.err,
              done  |-> ~ReadfullKeepsOn(r.err, p, ln)]

\* The most turns of the loop of readfull, and of the loop of Write, that
\* the model follows; a run that needs more is reported as "unfinished".
MaxReadTurns == 16

MaxWriteTurns == 40000

\* At most k turns of the loop, halved so that the evaluation stays shallow.
RECURSIVE ReadfullLoop(_, _, _, _)
ReadfullLoop(s, ln, k, st) ==
    IF st.done THEN st
    ELSE IF k <= 1 THEN ReadfullStep(s, ln, st)
    ELSE ReadfullLoop(s, ln, k - (k \div 2), ReadfullLoop(s, ln, k \div 2, st))

\* readfull(r, buf): the bytes read are raw[pos .. pos + p).
readfull(s, ln, pos, calls) ==
    ReadfullLoop(s, ln, MaxReadTurns,
                 [p |-> 0, pos |-> pos, calls |-> calls, err |-> "nil", done |-> FALSE])

(***************************************************************************)
(* Write.                                                                  *)
(***************************************************************************)

\* flate.NewWriter accepts the levels -2 .. 9.
LevelOk(level) == level >= -2 /\ level <= 9

\* The bytes fw.Write, fw.Flush add to buf for a chunk of n raw bytes: at
\* level 0 a stored block (5 + n) and the 5-byte sync marker; at the other
\* levels a length that depends on the data, here on s.ratio, never above the
\* stored form.
FlateLen(s, n) ==
    IF s.level = 0 \/ s.ratio <= 1 THEN n + 10 ELSE (n \div s.ratio) + 10

\* The final block fw.Close adds.
FlateCloseLen == 5

\* crc.Write(b[:n]) on the bytes raw[from .. from + n): the checksum covers
\* raw[0 .. to) as long as every chunk follows the one before.
CrcWrite(crc, from, n) ==
    [to |-> crc.to + n, ok |-> crc.ok /\ from = crc.to]

\* buf and sizes after the chunks written so far.  Neighbouring chunks of the
\* same raw and compressed length are kept as one run: cnt chunks, the first
\* of them chunk number `first`, starting at byte `at` of buf and holding the
\* raw bytes from `from` on.
AppendChunk(buf, c) ==
    IF buf # <<>> /\ buf[Len(buf)].clen = c.clen /\ buf[Len(buf)].len = c.len
       /\ c.at = buf[Len(buf)].at + buf[Len(buf)].cnt * c.clen
       /\ c.from = buf[Len(buf)].from + buf[Len(buf)].cnt * c.len
    THEN [buf EXCEPT ![Len(buf)].cnt = @ + 1]
    ELSE Append(buf, [cnt |-> 1, at |-> c.at, clen |-> c.clen, from |-> c.from, len |-> c.len,
                      first |-> IF buf = <<>> THEN 1
                                ELSE buf[Len(buf)].first + buf[Len(buf)].cnt])

\* len(sizes)
NChunks(buf) == IF buf = <<>> THEN 0 ELSE buf[Len(buf)].first + buf[Len(buf)].cnt - 1

\* Chunk i (from 1): where it starts in buf, sizes[i-1], and the raw bytes in it.
ChunkAt(buf, i) ==
    LET r == CHOOSE r \in 1..Len(buf) : buf[r].first <= i /\ i < buf[r].first + buf[r].cnt
        k == i - buf[r].first
    IN  [at   |-> buf[r].at + k * buf[r].clen,
         clen |-> buf[r].clen,
         from |-> buf[r].from + k * buf[r].len,
         len  |-> buf[r].len]

ChunkIsUsedSlip(n, err) == n > 0 /\ err = "nil"

\* if n > 0 { ... }
ChunkIsUsed(n, err) == n > 0

\* One turn of "for !eof".
WriteStep(s, w) ==
    LET r == readfull(s, blocksize, w.pos, w.calls) IN
    IF ~r.done THEN [w EXCEPT !.done = TRUE, !.err = "unfinished"]
    ELSE IF r.err = "io" THEN [w EXCEPT !.done = TRUE, !.err = "io"]
    ELSE LET l == w.total + FlateLen(s, r.p) IN
         IF ChunkIsUsed(r.p, r.err)
         THEN [pos   |-> r.pos,
               calls |-> r.calls,
               eof   |-> r.err = "EOF",
               crc   |-> CrcWrite(w.crc, w.pos, r.p),
               isize |-> w.isize + r.p,
               buf   |-> AppendChunk(w.buf, [at |-> w.total, clen |-> l - w.total,
                                             from |-> w.pos, len |-> r.p]),
               total |-> l,
               err   |-> "nil",
               done  |-> r.err = "EOF"]
         ELSE [w EXCEPT !.pos = r.pos, !.calls = r.calls,
                        !.eof = (r.err = "EOF"), !.done = (r.err = "EOF")]

RECURSIVE WriteLoop(_, _, _)
WriteLoop(s, k, w) ==
    IF w.done THEN w
    ELSE IF k <= 1 THEN WriteStep(s, w)
    ELSE WriteLoop(s, k - (k \div 2), WriteLoop(s, k \div 2, w))

\* byte(v & 255), byte((v >> 8) & 255)
LE16(v) == <<v % 256, (v \div 256) % 256>>

LE32(v) == <<v % 256, (v \div 256) % 256, (v \div 65536) % 256, (v \div 16777216) % 256>>

Xfl(level) == IF level = 9 THEN 2 ELSE IF level = 1 THEN 4 ELSE 0

\* The bytes Write puts before the table of sizes.
WriteHeader(s, n) ==
       <<31, 139, 8, 4>> \o LE32(s.now) \o <<Xfl(s.level), 255>>
    \o LE16(10 + 2 * n) \o <<82, 65>> \o LE16(6 + 2 * n)
    \o <<1, 0>> \o LE16(blocksize) \o LE16(n)

\* Byte j (from 0) of the table of sizes: two bytes for each of sizes.
TableByte(buf, j) == LE16(ChunkAt(buf, (j \div 2) + 1).clen)[(j % 2) + 1]

\* Write(r, filename, level): what it returns, and the file it leaves.
WriteRun(s) ==
    LET w == WriteLoop(s, MaxWriteTurns,
                 [pos |-> 0, calls |-> 0, eof |-> FALSE, crc |-> [to |-> 0, ok |-> TRUE],
                  isize |-> 0, buf |-> <<>>, total |-> 0,
                  err |-> "nil", done |-> FALSE])
    IN  IF ~LevelOk(s.level) THEN [ret |-> [st |-> "err"], file |-> None]
        ELSE IF ~w.done \/ w.err = "unfinished"
             THEN [ret |-> [st |-> "unfinished"], file |-> None]
        ELSE IF w.err # "nil" THEN [ret |-> [st |-> "err"], file |-> None]
        ELSE [ret  |-> [st |-> "ok", n |-> NChunks(w.buf), isize |-> w.isize, crc |-> w.crc],
              file |-> [st      |-> "file",
                        head    |-> WriteHeader(s, NChunks(w.buf)),
                        buf     |-> w.buf,
                        final   |-> FlateCloseLen,
                        trailer |-> [st |-> "trailer", crc |-> w.crc, isize |-> LE32(w.isize)]]]

Write ==
    /\ src.st = "src" /\ wr.st = "none"
    /\ LET res == WriteRun(src) IN
          /\ wr' = res.ret
          /\ file' = res.file
    /\ UNCHANGED <<dval, dres, src, rd, fpos, lock, call>>

(***************************************************************************)
(* The stream a Reader is built on.  A file is its leading bytes (head),   *)
(* then two bytes for each chunk of buf (the table of sizes), then the     *)
(* compressed data (buf), then the closing block of `final` bytes, then    *)
(* the 8-byte trailer.  A file that Write did not make is head alone.      *)
(***************************************************************************)
BufLen(f) ==
    IF f.buf = <<>> THEN 0
    ELSE ChunkAt(f.buf, NChunks(f.buf)).at + ChunkAt(f.buf, NChunks(f.buf)).clen

\* The bytes before the compressed data.
HeadLen(f) == Len(f.head) + 2 * NChunks(f.buf)

FileLen(f) ==
    HeadLen(f) + BufLen(f) + f.final + (IF f.trailer.st = "none" THEN 0 ELSE 8)

\* The byte at 0-based position p.  Past the table it is a byte of
\* compressed data, which the model does not spell out.
ByteAt(f, p) ==
    IF p < Len(f.head) THEN f.head[p + 1]
    ELSE IF p < HeadLen(f) THEN TableByte(f.buf, p - Len(f.head))
    ELSE 0

\* readfull(dz.fp, h) with len(h) = k at cursor p succeeds when the stream
\* holds k more bytes; otherwise it returns the error of the read.
Avail(f, p, k) == p + k <= FileLen(f)

ReadN(f, p, k) == [i \in 1..k |-> ByteAt(f, p + i - 1)]

(***************************************************************************)
(* NewReader.                                                              *)
(***************************************************************************)
U16Slip(lo, hi) == lo + 255 * hi

\* int(h[0]) + 256*int(h[1])
U16(lo, hi) == lo + 256 * hi

\* flg&m != 0 for a single-bit mask m
Flag(flg, m) == (flg \div m) % 2 = 1

\* One turn of "for q := 0; q < len(h);".  Indexing h past its end and
\* slicing it past its capacity panic.
ScanStep(h, st) ==
    IF st.q >= Len(h) THEN [st EXCEPT !.done = TRUE]
    ELSE IF st.q + 3 >= Len(h) THEN [st EXCEPT !.done = TRUE, !.panic = TRUE]
    ELSE LET si1 == h[st.q + 1]
             si2 == h[st.q + 2]
             ln  == U16(h[st.q + 3], h[st.q + 4])
         IN  IF si1 = 82 /\ si2 = 65
             THEN IF st.q + 4 + ln > Len(h)
                  THEN [st EXCEPT !.done = TRUE, !.panic = TRUE]
                  ELSE [st EXCEPT !.q = st.q + 4 + ln,
                                  !.metadata = SubSeq(h, st.q + 5, st.q + 4 + ln)]
             ELSE [st EXCEPT !.q = st.q + 4 + ln]

RECURSIVE ScanLoop(_, _, _)
ScanLoop(h, k, st) ==
    IF st.done THEN st
    ELSE IF k <= 1 THEN ScanStep(h, st)
    ELSE ScanLoop(h, k - (k \div 2), ScanLoop(h, k \div 2, st))

ScanExtra(h) ==
    ScanLoop(h, Len(h) + 2, [q |-> 0, metadata |-> <<>>, panic |-> FALSE, done |-> FALSE])

\* The loop skipping a zero-terminated string at cursor p: the cursor after
\* the terminator, or -1 when the stream ends first.
RECURSIVE SkipString(_, _)
SkipString(f, p) ==
    IF ~Avail(f, p, 1) THEN -1
    ELSE IF ByteAt(f, p) = 0 THEN p + 1
    ELSE SkipString(f, p + 1)

\* One turn of "for i := 0; i < blockcnt; i++".
OffsetsStep(metadata, blockcnt, st) ==
    IF st.i >= blockcnt THEN [st EXCEPT !.done = TRUE]
    ELSE IF 7 + 2 * st.i >= Len(metadata) THEN [st EXCEPT !.done = TRUE, !.panic = TRUE]
    ELSE [st EXCEPT !.i = st.i + 1,
                    !.offsets = Append(st.offsets,
                        st.offsets[st.i + 1]
                        + U16(metadata[6 + 2 * st.i + 1], metadata[7 + 2 * st.i + 1]))]

RECURSIVE OffsetsLoop(_, _, _, _)
OffsetsLoop(metadata, blockcnt, k, st) ==
    IF st.done THEN st
    ELSE IF k <= 1 THEN OffsetsStep(metadata, blockcnt, st)
    ELSE OffsetsLoop(metadata, blockcnt, k - (k \div 2),
                     OffsetsLoop(metadata, blockcnt, k \div 2, st))

Failed(why, p) == [st |-> "err", why |-> why, pos |-> p]

Panicked(p) == [st |-> "panic", why |-> "index out of range", pos |-> p]

\* Lines 216-235: the checks of the metadata and the offsets.
ReaderOf(metadata, p) ==
    IF Len(metadata) < 6 THEN Failed("Missing dictzip metadata", p)
    ELSE IF U16(metadata[1], metadata[2]) # 1 THEN Failed("Unknown dictzip version", p)
    ELSE LET blockcnt == U16(metadata[5], metadata[6])
             o == OffsetsLoop(metadata, blockcnt, blockcnt + 2,
                              [i |-> 0, offsets |-> <<p>>, panic |-> FALSE, done |-> FALSE])
         IN  IF o.panic THEN Panicked(p)
             ELSE [st        |-> "ok",
                   blocksize |-> U16(metadata[3], metadata[4]),
                   offsets   |-> o.offsets,
                   pos       |-> p]

\* Lines 207-214: the header CRC.
AfterComment(f, flg, metadata, p) ==
    IF Flag(flg, 2)
    THEN IF ~Avail(f, p, 2) THEN Failed("io", p) ELSE ReaderOf(metadata, p + 2)
    ELSE ReaderOf(metadata, p)

\* Lines 190-205: the file name (8) and the file comment (16).
AfterExtra(f, flg, metadata, p) ==
    LET p1 == IF Flag(flg, 8) THEN SkipString(f, p) ELSE p
        p2 == IF p1 >= 0 /\ Flag(flg, 16) THEN SkipString(f, p1) ELSE p1
    IN  IF p2 < 0 THEN Failed("io", p) ELSE AfterComment(f, flg, metadata, p2)

\* Lines 160-188: the extra field.
AfterFixed(f, flg, p) ==
    IF ~Flag(flg, 4) THEN AfterExtra(f, flg, <<>>, p)
    ELSE IF ~Avail(f, p, 2) THEN Failed("io", p)
    ELSE LET xlen == U16(ByteAt(f, p), ByteAt(f, p + 1)) IN
         IF ~Avail(f, p + 2, xlen) THEN Failed("io", p + 2)
         ELSE LET sc == ScanExtra(ReadN(f, p + 2, xlen)) IN
              IF sc.panic THEN Panicked(p + 2 + xlen)
              ELSE AfterExtra(f, flg, sc.metadata, p + 2 + xlen)

\* NewReader(rs): the Reader (st = "ok"), or nil and an error (st = "err"),
\* or a run-time panic; pos is the cursor of the stream afterwards.
NewReaderRun(f) ==
    IF ~Avail(f, 0, 10) THEN Failed("io", 0)
    ELSE IF ByteAt(f, 0) # 31 \/ ByteAt(f, 1) # 139 THEN Failed("Invalid header", 10)
    ELSE IF ByteAt(f, 2) # 8 THEN Failed("Unknown compression method", 10)
    ELSE AfterFixed(f, ByteAt(f, 3), 10)

NewReader ==
    /\ file.st = "file" /\ rd.st = "none"
    /\ LET r == NewReaderRun(file) IN
          /\ rd' = r
          /\ fpos' = r.pos
    /\ UNCHANGED <<dval, dres, src, wr, file, lock, call>>

(***************************************************************************)
(* The parser on its own, on files of any make.  A file is put together    *)
(* from a description, which the claims read what to expect from: the      *)
(* magic and method bytes, the flag byte, the bytes of the extra field     *)
(* (with what they hold: ra says whether an RA subfield is there, wf       *)
(* whether every subfield lies inside the field and the RA payload holds   *)
(* its blockcnt lengths), a file name, and how many bytes are cut off.     *)
(***************************************************************************)
RECURSIVE LE16s(_)
LE16s(lens) == IF lens = <<>> THEN <<>> ELSE LE16(Head(lens)) \o LE16s(Tail(lens))

RAPayload(version, bs, cnt, lens) == LE16(version) \o LE16(bs) \o LE16(cnt) \o LE16s(lens)

Subfield(si1, si2, ln, payload) == <<si1, si2>> \o LE16(ln) \o payload

GoodRA(bs, lens) == Subfield(82, 65, 6 + 2 * Len(lens), RAPayload(1, bs, Len(lens), lens))

Variant(h, ra, wf, bs, lens) == [h |-> h, ra |-> ra, wf |-> wf, bs |-> bs, lens |-> lens]

ExtraVariants ==
    { Variant(GoodRA(blocksize, <<>>), "good", TRUE, blocksize, <<>>),
      Variant(GoodRA(blocksize, <<300, 0, 65535>>), "good", TRUE, blocksize, <<300, 0, 65535>>),
      Variant(Subfield(88, 89, 3, <<1, 2, 3>>) \o GoodRA(4, <<7>>), "good", TRUE, 4, <<7>>),
      Variant(GoodRA(9, <<9>>) \o GoodRA(512, <<1, 2>>), "good", TRUE, 512, <<1, 2>>),
      Variant(Subfield(82, 65, 10, RAPayload(1, 1000, 1, <<5>>) \o <<0, 0>>),
              "good", TRUE, 1000, <<5>>),
      Variant(Subfield(88, 89, 3, <<1, 2, 3>>), "absent", TRUE, 0, <<>>),
      Variant(<<>>, "absent", TRUE, 0, <<>>),
      Variant(Subfield(82, 65, 4, <<1, 0, 7, 0>>), "short", TRUE, 0, <<>>),
      Variant(Subfield(82, 65, 6, RAPayload(2, 7, 0, <<>>)), "badversion", TRUE, 0, <<>>),
      Variant(<<82>>, "absent", FALSE, 0, <<>>),
      Variant(<<88, 89, 0>>, "absent", FALSE, 0, <<>>),
      Variant(Subfield(82, 65, 20, RAPayload(1, 7, 0, <<>>)), "good", FALSE, 7, <<>>),
      Variant(Subfield(82, 65, 8, RAPayload(1, 7, 3, <<5>>)), "good", FALSE, 7, <<5>>),
      Variant(GoodRA(7, <<5>>) \o Subfield(88, 89, 100, <<>>), "good", FALSE, 7, <<5>>) }

FlagBytes ==
    {2 * a + 4 * b + 8 * c + 16 * d : a \in {0, 1}, b \in {0, 1}, c \in {0, 1}, d \in {0, 1}}
    \cup {5, 228}

\* How many bytes are cut off the end of a file; the 4 bytes after the header
\* count among them.
MaxCut == 5

Comment == <<99, 0>>

AfterHeader == <<1, 0, 0, 255>>

CraftedInputs ==
    [st : {"crafted"}, magic : {<<31, 139>>}, method : {8}, flg : FlagBytes,
     extra : ExtraVariants, name : {<<0>>, <<110, 97, 0>>}, cut : {0, MaxCut}]
    \cup
    [st : {"crafted"}, magic : {<<31, 138>>, <<80, 139>>, <<31, 139>>}, method : {8, 0},
     flg : {4, 12}, extra : {Variant(GoodRA(blocksize, <<>>), "good", TRUE, blocksize, <<>>),
                              Variant(<<82>>, "absent", FALSE, 0, <<>>)},
     name : {<<0>>}, cut : {0, MaxCut, MaxCut + 12}]

\* The bytes of the header the description stands for.
HeaderBytes(d) ==
       d.magic \o <<d.method, d.flg, 0, 0, 0, 0, 0, 255>>
    \o (IF Flag(d.flg, 4) THEN LE16(Len(d.extra.h)) \o d.extra.h ELSE <<>>)
    \o (IF Flag(d.flg, 8) THEN d.name ELSE <<>>)
    \o (IF Flag(d.flg, 16) THEN Comment ELSE <<>>)
    \o (IF Flag(d.flg, 2) THEN <<171, 205>> ELSE <<>>)

CraftedFile(d) ==
    LET all == HeaderBytes(d) \o AfterHeader
        keep == IF d.cut >= Len(all) THEN 0 ELSE Len(all) - d.cut
    IN  [st |-> "file", head |-> SubSeq(all, 1, keep), buf |-> <<>>, final |-> 0,
         trailer |-> None]

InitParse ==
    /\ dval = <<>> /\ dres = None
    /\ src \in CraftedInputs /\ wr = None /\ file = CraftedFile(src) /\ rd = None
    /\ fpos = 0 /\ lock = 0 /\ call = <<>>

NextParse == NewReader

SpecParse == InitParse /\ [][NextParse]_vars

\* What the description says of the file.
BadMagic(d) == d.magic # <<31, 139>>

BadMethod(d) == d.method # 8

\* The header is cut: some read of it ends early.
CutShort(d) == d.cut > Len(AfterHeader)

RAState(d) == IF Flag(d.flg, 4) THEN d.extra.ra ELSE "absent"

WellFormed(d) == ~Flag(d.flg, 4) \/ d.extra.wf

\* C5: after a successful NewReader, whatever the flags, offsets has
\* blockCount + 1 entries, offsets[0] is the number of header bytes consumed
\* and the cursor of the stream, offsets[i+1] = offsets[i] + blockLength[i],
\* and the sequence never decreases.
C5_Offsets ==
    (src.st = "crafted" /\ rd.st = "ok") =>
        LET lens == src.extra.lens
            o == rd.offsets
        IN  /\ Len(o) = Len(lens) + 1
            /\ o[1] = Len(HeaderBytes(src))
            /\ o[1] = fpos
            /\ \A i \in 1..Len(lens) : o[i + 1] = o[i] + lens[i]
            /\ \A i \in 1..Len(lens) : o[i] <= o[i + 1]
            /\ rd.blocksize = src.extra.bs

\* A Reader built from a header with all four optional fields and three
\* blocks, one of them of length 0.
C5_Witness ==
    /\ src.st = "crafted" /\ rd.st = "ok"
    /\ src.flg = 30 /\ Len(src.name) = 3
    /\ Len(rd.offsets) = 4 /\ rd.offsets[3] = rd.offsets[2]
    /\ rd.offsets[4] = rd.offsets[1] + 65835

\* C4: bad magic, bad method, an RA subfield that is absent, shorter than 6
\* bytes or of another version, or a header read that ends early, make
\* NewReader return an error and no Reader; it never panics.
C4_FailsAtomically ==
    (src.st = "crafted" /\ rd.st # "none") =>
        /\ rd.st # "panic"
        /\ (BadMagic(src) \/ BadMethod(src) \/ CutShort(src)
            \/ RAState(src) \in {"absent", "short", "badversion"}) => rd.st = "err"
        /\ (BadMagic(src) /\ Len(file.head) >= 10) => rd.why = "Invalid header"
        /\ (~BadMagic(src) /\ BadMethod(src) /\ Len(file.head) >= 10)
              => rd.why = "Unknown compression method"

\* C10: the scan of the extra field and the reading of the block lengths
\* stay inside the bytes read, and an input whose subfields or RA payload do
\* not fit is rejected with an error.
C10_StaysInside ==
    (src.st = "crafted" /\ rd.st # "none") =>
        /\ rd.st # "panic"
        /\ (~BadMagic(src) /\ ~BadMethod(src) /\ ~WellFormed(src)) => rd.st = "err"

(***************************************************************************)
(* The writer on its own.                                                  *)
(***************************************************************************)
MaxBlocks == 2

\* Lengths around the block boundaries, and the 150,000 bytes of the scenario.
SmallLengths ==
    {k * blocksize + d : k \in 0..MaxBlocks, d \in {0, 1}}
    \cup {k * blocksize - 1 : k \in 1..MaxBlocks}
    \cup {150000}

CapPatterns ==
    {<<70000>>, <<blocksize>>, <<20000>>, <<1, 58314>>, <<40000, 18315, 7>>}

WriteInputs ==
    [st : {"src"}, L : SmallLengths, caps : CapPatterns, eofWith : BOOLEAN,
     failAt : {-1}, level : {-1, 0, 1, 9}, ratio : {1, 3}, now : {1700000000}]
    \cup
    [st : {"src"}, L : {blocksize + 1}, caps : {<<20000>>}, eofWith : {FALSE},
     failAt : {-1, 0, 30000, blocksize + 1}, level : {0, 10}, ratio : {1}, now : {0}]

InitWrite ==
    /\ dval = <<>> /\ dres = None
    /\ src \in WriteInputs /\ wr = None /\ file = None /\ rd = None
    /\ fpos = 0 /\ lock = 0 /\ call = <<>>

NextWrite == Write

SpecWrite == InitWrite /\ [][NextWrite]_vars

CeilDiv(a, b) == (a + b - 1) \div b

\* C7: however the source cuts its reads, Write records ceil(L / blocksize)
\* blocks, all but the last of blocksize raw bytes and none empty, the size
\* field of the trailer is L mod 2^32 (every length tried is below 2^31, where
\* that is L itself), and the checksum covers the L raw bytes in order.
C7_Chunking ==
    (wr.st # "none" /\ src.failAt = -1 /\ LevelOk(src.level)) =>
        LET n == CeilDiv(src.L, blocksize) IN
        /\ wr.st = "ok"
        /\ wr.n = n
        /\ NChunks(file.buf) = n
        /\ \A i \in 1..n :
              /\ ChunkAt(file.buf, i).from = (i - 1) * blocksize
              /\ ChunkAt(file.buf, i).len = IF i < n THEN blocksize ELSE src.L - (n - 1) * blocksize
              /\ ChunkAt(file.buf, i).len > 0
        /\ file.trailer.isize = <<src.L % 256, (src.L \div 256) % 256,
                                   (src.L \div (256 * 256)) % 256, src.L \div (256 * 256 * 256)>>
        /\ file.trailer.crc = [to |-> src.L, ok |-> TRUE]
        /\ wr.crc = file.trailer.crc /\ wr.isize = src.L

\* Three blocks written from a source that cuts every read short and reports
\* the end of input together with the last bytes.
C7_Witness ==
    /\ wr.st = "ok" /\ src.L = 150000 /\ src.caps = <<1, 58314>> /\ src.eofWith
    /\ wr.n = 3

(***************************************************************************)
(* Reader.Get, step by step: lock, seek, read, return.                     *)
(***************************************************************************)
Callers == {1, 2}

IdleCall == [pc |-> "idle", start |-> 0, size |-> 0, want |-> 0, res |-> None]

\* The raw bytes the file holds.
RawLen(f) ==
    IF f.buf = <<>> THEN 0
    ELSE ChunkAt(f.buf, NChunks(f.buf)).from + ChunkAt(f.buf, NChunks(f.buf)).len

\* readfull(rd, data) with len(data) = want on a flate.Reader that starts at
\* cursor pos: what it can end with.  The blocks of all chunks and the closing
\* block form one DEFLATE stream, so a decoder started where a chunk starts
\* delivers the raw bytes from that chunk on and ends with io.EOF after the
\* last one; with want = 0 nothing is read.  Started anywhere else it reads
\* data that is no block header: an error, or bytes that are not the raw ones.
DecodeAt(f, pos, want) ==
    IF want = 0 THEN {[st |-> "ok", from |-> 0]}
    ELSE IF pos >= FileLen(f) THEN {[st |-> "err", why |-> "unexpected EOF"]}
    ELSE IF f.final > 0 /\ pos = HeadLen(f) + BufLen(f)
         THEN {[st |-> "err", why |-> "EOF"]}
    ELSE LET ks == {k \in 1..NChunks(f.buf) : HeadLen(f) + ChunkAt(f.buf, k).at = pos} IN
         IF ks = {}
         THEN {[st |-> "err", why |-> "corrupt input"], [st |-> "ok", from |-> -1]}
         ELSE LET k == CHOOSE k \in ks : TRUE IN
              IF want <= RawLen(f) - ChunkAt(f.buf, k).from
              THEN {[st |-> "ok", from |-> ChunkAt(f.buf, k).from]}
              ELSE {[st |-> "err", why |-> "EOF"]}

\* Where the cursor of the stream may be after the decoder has read from pos:
\* flate reads ahead of what it decodes.
CursorAfter(f, pos, want) ==
    IF want = 0 THEN {pos}
    ELSE {Min(pos + 1, IF pos > FileLen(f) THEN pos ELSE FileLen(f)),
          IF pos > FileLen(f) THEN pos ELSE FileLen(f)}

SkipOfSlip(start, bsize) == 0

\* start - start1, with start1 := dz.blocksize * (start / dz.blocksize)
SkipOf(start, bsize) == start - bsize * (start \div bsize)

\* What Get returns after the read ended with out: nil and the error, or
\* data[start-start1:], which is the last want - skip of the bytes read.
GetData(out, start, want, bsize) ==
    IF out.st = "ok"
    THEN [st   |-> "ok",
          from |-> out.from + SkipOf(start, bsize),
          n    |-> want - SkipOf(start, bsize)]
    ELSE out

LockFreeSlip == TRUE

\* dz.lock.Lock() goes through when no caller holds the lock.
LockFree == lock = 0

GetLock(c, start, size) ==
    /\ rd.st = "ok" /\ call[c].pc = "idle"
    /\ LockFree
    /\ lock' = c
    /\ call' = [call EXCEPT ![c] = [IdleCall EXCEPT !.pc = "locked", !.start = start,
                                                    !.size = size]]
    /\ UNCHANGED <<dval, dres, src, wr, file, rd, fpos>>

\* Lines 244-250.  A division by a zero blocksize and an index past the end
\* of offsets panic; the deferred Unlock runs.
GetSeek(c) ==
    /\ call[c].pc = "locked"
    /\ LET start == call[c].start IN
       IF rd.blocksize = 0 \/ start \div rd.blocksize >= Len(rd.offsets)
       THEN /\ call' = [call EXCEPT ![c].pc = "done", ![c].res = [st |-> "panic"]]
            /\ lock' = 0
            /\ fpos' = fpos
       ELSE /\ call' = [call EXCEPT ![c].pc = "seeked",
                                    ![c].want = call[c].size + SkipOf(start, rd.blocksize)]
            /\ fpos' = rd.offsets[(start \div rd.blocksize) + 1]
            /\ lock' = lock
    /\ UNCHANGED <<dval, dres, src, wr, file, rd>>

\* Lines 251-257: the decoder reads from wherever the cursor is.
GetRead(c) ==
    /\ call[c].pc = "seeked"
    /\ \E out \in DecodeAt(file, fpos, call[c].want), cur \in CursorAfter(file, fpos, call[c].want) :
          /\ fpos' = cur
          /\ call' = [call EXCEPT ![c].pc = "read",
                        ![c].res = GetData(out, call[c].start, call[c].want, rd.blocksize)]
    /\ UNCHANGED <<dval, dres, src, wr, file, rd, lock>>

\* Lines 255-260: the return, with the deferred Unlock.
GetReturn(c) ==
    /\ call[c].pc = "read"
    /\ call' = [call EXCEPT ![c].pc = "done"]
    /\ lock' = 0
    /\ UNCHANGED <<dval, dres, src, wr, file, rd, fpos>>

(***************************************************************************)
(* Write, then NewReader on the file written, then Get by one caller.      *)
(***************************************************************************)

\* The most blocks whose table fits the 16-bit xlen: 10 + 2n <= 65535.
HeaderBlocks == (65535 - 10) \div 2

\* Block counts tried beyond that.
MaxOver == 2

FileLengths ==
    {k * blocksize + d : k \in 0..MaxBlocks, d \in {0, 1}}
    \cup {150000}
    \cup {(HeaderBlocks + d - 1) * blocksize + 1 : d \in 0..MaxOver}

FileInputs ==
    {s \in [st : {"src"}, L : FileLengths, caps : {<<blocksize>>}, eofWith : {FALSE},
            failAt : {-1}, level : {0, 9}, ratio : {3}, now : {1700000000}] :
        s.L > 150000 => s.level = 0}

\* The starts and sizes tried on a file of L raw bytes.
GetStarts(L) ==
    {x \in {0, 1, blocksize - 1, blocksize, blocksize + 1, 2 * blocksize, L - 1, L,
            (CeilDiv(L, blocksize) + 1) * blocksize} : x >= 0}

GetSizes(L, start) ==
    {x \in {0, 1, blocksize - 1, blocksize, blocksize + 1, L - start} : x >= 0}
    \cup (IF start = 0 THEN {L} ELSE {})

InitFile ==
    /\ dval = <<>> /\ dres = None
    /\ src \in FileInputs /\ wr = None /\ file = None /\ rd = None
    /\ fpos = 0 /\ lock = 0 /\ call = [c \in Callers |-> IdleCall]

NextFile ==
    \/ Write
    \/ NewReader
    \/ \E start \in GetStarts(src.L) : \E size \in GetSizes(src.L, start) : GetLock(1, start, size)
    \/ GetSeek(1)
    \/ GetRead(1)
    \/ GetReturn(1)

SpecFile == InitFile /\ [][NextFile]_vars

\* The window [start, start + size) lies in one block.
InOneBlock(start, size) ==
    size = 0 \/ start \div blocksize = (start + size - 1) \div blocksize

\* C1: Write, then NewReader on the file, then Get(0, L) returns the L raw
\* bytes, whatever L is.
C1_RoundTrip ==
    (wr.st = "ok" /\ rd.st # "none") =>
        /\ rd.st = "ok"
        /\ \A c \in Callers :
              (call[c].pc = "done" /\ call[c].start = 0 /\ call[c].size = src.L) =>
                  /\ call[c].res.st = "ok"
                  /\ call[c].res.n = src.L
                  /\ src.L > 0 => call[c].res.from = 0

\* C6: the header Write emits is parsed back by NewReader without loss: xlen,
\* the subfield length and the block count are the untruncated 10 + 2n, 6 + 2n
\* and n, NewReader succeeds with blocksize 58315, offsets[0] = 22 + 2n and
\* offsets[i+1] - offsets[i] the compressed length recorded for block i.
C6_HeaderParsesBack ==
    (wr.st = "ok" /\ rd.st # "none") =>
        LET n == wr.n IN
        /\ file.head[11] + 256 * file.head[12] = 10 + 2 * n
        /\ file.head[15] + 256 * file.head[16] = 6 + 2 * n
        /\ file.head[21] + 256 * file.head[22] = n
        /\ rd.st = "ok"
        /\ rd.blocksize = 58315
        /\ Len(rd.offsets) = n + 1
        /\ rd.offsets[1] = 22 + 2 * n
        /\ \A i \in 1..n : rd.offsets[i + 1] - rd.offsets[i] = ChunkAt(file.buf, i).clen

\* C2: for a window inside one block and inside the raw input, Get seeks to
\* offsets[start / blocksize], decompresses size + (start mod blocksize) bytes
\* and returns the size bytes raw[start .. start + size).
C2_WithinBlock ==
    \A c \in Callers :
        LET k == call[c] IN
        (wr.st = "ok" /\ rd.st = "ok" /\ k.pc # "idle"
         /\ InOneBlock(k.start, k.size) /\ k.start + k.size <= src.L) =>
            /\ k.pc = "seeked" =>
                  /\ fpos = rd.offsets[(k.start \div blocksize) + 1]
                  /\ k.want = k.size + (k.start % blocksize)
            /\ k.pc \in {"read", "done"} =>
                  /\ k.res.st = "ok"
                  /\ k.res.n = k.size
                  /\ k.size > 0 => k.res.from = k.start

\* The second block of a file of three, read from its second byte to its end.
C2_Witness ==
    /\ wr.st = "ok" /\ rd.st = "ok" /\ Len(rd.offsets) = 4
    /\ call[1].pc = "done" /\ call[1].start = blocksize + 1 /\ call[1].size = blocksize - 1
    /\ call[1].res = [st |-> "ok", from |-> blocksize + 1, n |-> blocksize - 1]

\* C9: a Get whose range reaches past the end of the data returns an error
\* and no data, does not panic, and leaves the lock free.
C9_OutOfRange ==
    \A c \in Callers :
        (call[c].pc = "done" /\ call[c].start + call[c].size > src.L) =>
            /\ call[c].res.st = "err"
            /\ lock = 0

(***************************************************************************)
(* Two callers of Get on one Reader.                                       *)
(***************************************************************************)
ConcInputs ==
    [st : {"src"}, L : {k * blocksize + 1 : k \in 1..MaxBlocks}, caps : {<<blocksize>>},
     eofWith : {FALSE}, failAt : {-1}, level : {0, 9}, ratio : {3}, now : {1700000000}]

ConcArgs(L) ==
    { <<0, 1>>, <<blocksize - 1, 2>>, <<blocksize, L - blocksize>>, <<1, blocksize - 1>>,
      <<L, 1>>, <<L - 1, 0>>, <<(CeilDiv(L, blocksize) + 1) * blocksize, 1>> }

InitConc ==
    /\ dval = <<>> /\ dres = None
    /\ src \in ConcInputs
    /\ wr = WriteRun(src).ret
    /\ file = WriteRun(src).file
    /\ rd = NewReaderRun(file)
    /\ fpos = rd.pos
    /\ lock = 0 /\ call = [c \in Callers |-> IdleCall]

NextConc ==
    \E c \in Callers :
        \/ \E a \in ConcArgs(src.L) : GetLock(c, a[1], a[2])
        \/ GetSeek(c)
        \/ GetRead(c)
        \/ GetReturn(c)

SpecConc == InitConc /\ [][NextConc]_vars

\* What Get(start, size) can return when it runs alone on Reader r of file f.
GetAlone(r, f, start, size) ==
    IF r.blocksize = 0 \/ start \div r.blocksize >= Len(r.offsets)
    THEN {[st |-> "panic"]}
    ELSE {GetData(out, start, size + SkipOf(start, r.blocksize), r.blocksize) :
             out \in DecodeAt(f, r.offsets[(start \div r.blocksize) + 1],
                              size + SkipOf(start, r.blocksize))}

\* C3: with several callers at once every Get returns what it returns when
\* run alone: from a call's seek to the end of its read the cursor is where
\* that call put it, and no other caller is between its Lock and its Unlock.
C3_Serialized ==
    \A c \in Callers :
        LET k == call[c] IN
        /\ k.pc \in {"locked", "seeked", "read"} =>
              /\ lock = c
              /\ \A d \in Callers \ {c} : call[d].pc \in {"idle", "done"}
        /\ k.pc = "seeked" => fpos = rd.offsets[(k.start \div rd.blocksize) + 1]
        /\ k.pc \in {"read", "done"} => k.res \in GetAlone(rd, file, k.start, k.size)
        /\ (k.pc \in {"read", "done"} /\ k.start + k.size <= src.L) =>
              /\ k.res.st = "ok"
              /\ k.res.n = k.size
              /\ k.size > 0 => k.res.from = k.start

\* Both callers are done, one with the first byte and one with a window that
\* starts in the first block and ends in the second.
C3_Witness ==
    /\ call[1].pc = "done" /\ call[2].pc = "done"
    /\ call[1].res = [st |-> "ok", from |-> blocksize - 1, n |-> 2]
    /\ call[2].res = [st |-> "ok", from |-> 0, n |-> 1]

(***************************************************************************)
(* The decoder on its own: every call is one step.                         *)
(***************************************************************************)

\* Bounds of the decoder's inputs.
MaxShort == 2

MaxLong == 12

\* Bytes tried in short strings: digits 0, 1, 15, 16, 25, 26, 51, 52, 61, 62,
\* 63 and the bytes '-', '=' and 0, which are outside the alphabet.
ShortBytes == {65, 66, 80, 81, 90, 97, 122, 48, 57, 43, 47, 45, 61, 0}

\* Bytes tried in long strings: digits 0, 1, 7, 8, 15, 16, 63, and '-'.
LongBytes == {65, 66, 72, 73, 80, 81, 47, 45}

SeqsUpTo(S, n) == UNION {[1..k -> S] : k \in 0..n}

DecodeInputs ==
    SeqsUpTo(ShortBytes, MaxShort)
    \cup {<<b>> : b \in 0..255}
    \cup {[i \in 1..k |-> IF i = 1 THEN a ELSE IF i = 2 THEN b ELSE c] :
             k \in 10..MaxLong, a \in LongBytes, b \in LongBytes, c \in LongBytes}

\* One call of decode on the argument at hand.
Decode ==
    /\ dres.st = "none"
    /\ dres' = decode(dval)
    /\ UNCHANGED <<dval, src, wr, file, rd, fpos, lock, call>>

InitCodec ==
    /\ dval \in DecodeInputs /\ dres = None
    /\ src = None /\ wr = None /\ file = None /\ rd = None
    /\ fpos = 0 /\ lock = 0 /\ call = <<>>

NextCodec == Decode

SpecCodec == InitCodec /\ [][NextCodec]_vars

(***************************************************************************)
(* C8.  What the claim speaks of: the digit a byte stands for in the       *)
(* alphabet, and the positional value of a string of digits.               *)
(***************************************************************************)
InAlphabet(b) == \E k \in 1..64 : list[k] = b

DigitOf(b) == (CHOOSE k \in 1..64 : list[k] = b) - 1

\* The digit at position p, position 0 being the rightmost byte.
DigitAt(val, p) == DigitOf(val[Len(val) - p])

AllAlphabet(val) == \A i \in 1..Len(val) : InAlphabet(val[i])

\* The minimal-length representation: no leading zero digit, 0 is "A".
Minimal(val) == Len(val) >= 1 /\ (Len(val) = 1 \/ DigitOf(val[1]) # 0)

\* The positional value is below 2^64: digit 10 has only 4 bits of room.
Fits64(val) ==
    \A p \in 0..(Len(val) - 1) :
        /\ p >= 11 => DigitAt(val, p) = 0
        /\ p = 10 => DigitAt(val, p) < 16

\* The positional value is below 2^63.
Fits63(val) ==
    /\ Fits64(val)
    /\ Len(val) >= 11 => DigitAt(val, 10) < 8

\* The bits of the positional value: digit p holds bits 6p .. 6p+5.
PosBits(val) ==
    [b \in Bits64 |->
        IF b \div 6 < Len(val)
        THEN (DigitAt(val, b \div 6) \div (2^(b % 6))) % 2
        ELSE 0]

RECURSIVE PosValue(_, _)
PosValue(val, i) ==
    IF i > Len(val) THEN 0 ELSE DigitOf(val[i]) * 64^(Len(val) - i) + PosValue(val, i + 1)

RECURSIVE IntOfBits(_, _)
IntOfBits(bits, i) == IF i < 0 THEN 0 ELSE bits[i] * 2^i + IntOfBits(bits, i - 1)

\* C8: decode returns n for the minimal representation of every n below 2^63
\* (as an integer where the model's integers hold it, bit by bit beyond),
\* an error for every string with a byte outside the alphabet, and the
\* overflow error for every alphabet string whose value needs more than 64 bits.
C8_DecodeAgrees ==
    dres.st # "none" =>
        /\ (AllAlphabet(dval) /\ Minimal(dval) /\ Fits63(dval)) =>
               /\ dres.st = "ok"
               /\ dres.bits = PosBits(dval)
               /\ dres.bits[63] = 0
               /\ Len(dval) <= 5 => IntOfBits(dres.bits, 30) = PosValue(dval, 1)
        /\ ~AllAlphabet(dval) => dres.st \in {"illegal", "overflow"}
        /\ (AllAlphabet(dval) /\ ~Fits64(dval)) => dres.st = "overflow"

\* A decoded 11-digit value with leading digit 7, just below 2^63.
C8_Witness ==
    /\ dres.st = "ok"
    /\ Len(dval) = 11 /\ dval[1] = 72 /\ dval[2] = 47
    /\ dres.bits[62] = 1

=============================================================================
